---- MODULE Spec2Model ----
(***************************************************************************)
(* Model of src/src/core/consensus.py: the Consensus ledger of hash-chained *)
(* Blocks with quorum validation, and of                                   *)
(* src/src/core/evolutionary_consensus.py: the proposal pool, the node      *)
(* reputation and the rule history of EvolutionaryConsensus.  One action   *)
(* per public method, each executed as a whole (calls are made one at a    *)
(* time on one instance).  Spec drives the Consensus object, EvoSpec and   *)
(* EvoDeepSpec the EvolutionaryConsensus object.  NodeSpec drives the      *)
(* GemmaNode objects of src/src/core/gemma_node.py, each with its private  *)
(* Consensus.  ConcSpec and ConcProposeSpec run the methods in several     *)
(* threads that share one instance, one step per access to the shared      *)
(* object.                                                                 *)
(***************************************************************************)
EXTENDS Naturals, Sequences, FiniteSets, TLC

(* ------------------------------ bounds --------------------------------- *)
\* longest sequence of calls made on the instance
MaxCalls == 5
\* longest ledger explored
MaxBlocks == 2
\* datetime.now() is read as a tick in 1..MaxTime (the wall clock may repeat)
MaxTime == 1
\* the constructor argument min_validators is drawn from 1..MaxMinValidators
MaxMinValidators == 3

\* node identities used as validators of blocks
NodeIds == {"n1", "n2", "n3"}
\* node identities passed to add_validator (tests/test_system.py registers two)
Registered == {"n1", "n2"}
\* node identities that produce blocks
Producers == {"n1"}
\* change payloads handed to create_block
ChangeSet == {"c1", "c2"}
\* every changes payload of the model: those of ChangeSet and the ones a
\* GemmaNode builds in learn_from_experience
Payloads == <<"c1", "c2", "u_ok", "u_edge", "u_big", "u_fast">>

(* --------------------------- program constants ------------------------- *)
\* def __init__(self, min_validators: int = 3)
DefaultMinValidators == 3

\* "0" * 64, the previous_hash of the first block; no digest below equals it
ZeroHash == 0

(* ------------------------------ hashing -------------------------------- *)
NodeIndex(n) == CHOOSE k \in 0..2 : n = <<"n1", "n2", "n3">>[k + 1]
ChangeIndex(c) == CHOOSE k \in 0..(Len(Payloads) - 1) : c = Payloads[k + 1]

\* block_data = f"{timestamp}{node_id}{str(changes)}{previous_hash}"
BlockData(timestamp, node_id, changes, previous_hash) ==
    <<timestamp, node_id, changes, previous_hash>>

\* hashlib.sha256(block_data.encode()).hexdigest(): a collision-free digest,
\* here the mixed-radix number of the hashed fields, shifted off ZeroHash.
sha256(block_data) ==
    1 + (block_data[1] - 1)
      + MaxTime * (NodeIndex(block_data[2])
      + Cardinality(NodeIds) * (ChangeIndex(block_data[3])
      + Len(Payloads) * block_data[4]))

(* ------------------------------- state --------------------------------- *)
VARIABLES
    min_validators,   \* self.min_validators
    blocks,           \* self.blocks: the ledger, a list of Block
    validators,       \* self.validators: the registry list
    last,             \* the most recent call: method, arguments, return value
    calls,            \* the number of calls made so far
    out,              \* the list or dict the most recent call returned, if any
    proposals,        \* EvolutionaryConsensus.proposals: the pool
    current_rule,     \* EvolutionaryConsensus.current_rule
    node_reputation,  \* EvolutionaryConsensus.node_reputation
    rule_history,     \* EvolutionaryConsensus.rule_history
    threads,          \* per thread: where its call stands, and its locals
    nodes             \* per GemmaNode: its private Consensus and its counters

\* the state of the Consensus object, of the EvolutionaryConsensus object
cvars == <<min_validators, blocks, validators>>
evars == <<proposals, current_rule, node_reputation, rule_history>>
\* the threads and the GemmaNode objects
xvars == <<threads, nodes>>
vars == <<min_validators, blocks, validators, last, calls, out,
          proposals, current_rule, node_reputation, rule_history,
          threads, nodes>>

Range(s) == {s[k] : k \in 1..Len(s)}

\* Block(timestamp, node_id, changes, previous_hash, hash, validators=[]),
\* status defaulting to "pending"
Block(timestamp, node_id, changes, previous_hash, hash) ==
    [timestamp |-> timestamp, node_id |-> node_id, changes |-> changes,
     previous_hash |-> previous_hash, hash |-> hash,
     validators |-> <<>>, status |-> "pending"]

\* what the caller observes of a call: the method, its arguments, the status
\* the addressed block had when the call was made ("-" if none) and the
\* value returned
Call(op, hash, id, was, ret) ==
    [op |-> op, hash |-> hash, id |-> id, was |-> was, ret |-> ret]

\* EvolutionaryConsensus.__init__; node_reputation is a dict, here a function
\* whose domain is the set of node ids that have a record
EvoConstructed ==
    /\ proposals = <<>>
    /\ current_rule = "evolutionary"
    /\ node_reputation = [n \in {} |-> 0]
    /\ rule_history = <<>>

\* the threads that call into a shared instance
Threads == {"t1", "t2"}
\* a thread that is in no call
Idle == [pc |-> "idle"]

\* the GemmaNode objects of the network
GemmaIds == {"n1", "n2"}

\* self.consensus = Consensus(); self.consensus.add_validator(node_id)
NodeConsensus(node_id) ==
    [min_validators |-> DefaultMinValidators, blocks |-> <<>>,
     validators |-> <<node_id>>]

\* GemmaNode.__init__: the fields that validate_changes and
\* learn_from_experience read or write beside the model itself
GemmaNode(node_id) ==
    [id |-> node_id, is_validator |-> TRUE, validation_count |-> 0,
     validation_success |-> 0, consensus |-> NodeConsensus(node_id)]

\* Consensus.__init__ (and EvolutionaryConsensus.__init__ beside it); no
\* thread is in a call, and every GemmaNode is as constructed
Init ==
    /\ min_validators \in 1..MaxMinValidators
    /\ blocks = <<>>
    /\ validators = <<>>
    /\ last = Call("init", ZeroHash, "-", "-", "None")
    /\ calls = 0
    /\ out = <<>>
    /\ EvoConstructed
    /\ threads = [t \in Threads |-> Idle]
    /\ nodes = [n \in GemmaIds |-> GemmaNode(n)]

FindBlock_M(bs, block_hash) ==
    IF \E k \in 1..Len(bs) : bs[k].hash = block_hash
    THEN CHOOSE k \in 1..Len(bs) :
            /\ bs[k].hash = block_hash
            /\ \A j \in 1..(k - 1) : bs[j].hash # block_hash
    ELSE Len(bs)

\* next((b for b in self.blocks if b.hash == block_hash), None):
\* the index of the first block with that hash, 0 for None
FindBlock(bs, block_hash) ==
    IF \E k \in 1..Len(bs) : bs[k].hash = block_hash
    THEN CHOOSE k \in 1..Len(bs) :
            /\ bs[k].hash = block_hash
            /\ \A j \in 1..(k - 1) : bs[j].hash # block_hash
    ELSE 0

StatusAt(bs, i) == IF i = 0 THEN "-" ELSE bs[i].status

\* Consensus.add_validator
add_validator(node_id) ==
    /\ validators' = IF node_id \notin Range(validators)
                     THEN Append(validators, node_id)
                     ELSE validators
    /\ last' = Call("add_validator", ZeroHash, node_id, "-", "None")
    /\ UNCHANGED <<min_validators, blocks>>

PreviousHash_M(bs) == IF bs # <<>> THEN bs[Len(bs)].previous_hash ELSE ZeroHash

\* previous_hash = self.blocks[-1].hash if self.blocks else "0" * 64
PreviousHash(bs) == IF bs # <<>> THEN bs[Len(bs)].hash ELSE ZeroHash

create_block_M(node_id, changes, timestamp) ==
    /\ Len(blocks) < MaxBlocks
    /\ LET previous_hash == PreviousHash(blocks)
           block_hash == sha256(BlockData(timestamp, node_id, "c1", previous_hash))
       IN /\ blocks' = Append(blocks,
                 Block(timestamp, node_id, changes, previous_hash, block_hash))
          /\ last' = Call("create_block", block_hash, node_id, "-", "Block")
    /\ UNCHANGED <<min_validators, validators>>

\* Consensus.create_block; timestamp is the value datetime.now() returns
create_block(node_id, changes, timestamp) ==
    /\ Len(blocks) < MaxBlocks
    /\ LET previous_hash == PreviousHash(blocks)
           block_hash == sha256(BlockData(timestamp, node_id, changes, previous_hash))
       IN /\ blocks' = Append(blocks,
                 Block(timestamp, node_id, changes, previous_hash, block_hash))
          /\ last' = Call("create_block", block_hash, node_id, "-", "Block")
    /\ UNCHANGED <<min_validators, validators>>

NotYetValidator_M(validator_id, vs) == TRUE

NotYetValidator_Registered(validator_id, vs) ==
    validator_id \notin Range(vs) /\ validator_id \in Range(validators)

\* validator_id not in block.validators
NotYetValidator(validator_id, vs) == validator_id \notin Range(vs)

QuorumReached_M(vs, m) == Len(vs) > m

\* len(block.validators) >= self.min_validators
QuorumReached(vs, m) == Len(vs) >= m

\* Consensus.validate_block
validate_block(block_hash, validator_id) ==
    /\ LET i == FindBlock(blocks, block_hash)
           was == StatusAt(blocks, i)
       IN
         IF i = 0
         THEN /\ blocks' = blocks
              /\ last' = Call("validate_block", block_hash, validator_id, was, "False")
         ELSE IF NotYetValidator(validator_id, blocks[i].validators)
              THEN LET vs == Append(blocks[i].validators, validator_id) IN
                     IF QuorumReached(vs, min_validators)
                     THEN /\ blocks' = [blocks EXCEPT ![i].validators = vs,
                                                      ![i].status = "validated"]
                          /\ last' = Call("validate_block", block_hash, validator_id, was, "True")
                     ELSE /\ blocks' = [blocks EXCEPT ![i].validators = vs]
                          /\ last' = Call("validate_block", block_hash, validator_id, was, "False")
              ELSE /\ blocks' = blocks
                   /\ last' = Call("validate_block", block_hash, validator_id, was, "False")
    /\ UNCHANGED <<min_validators, validators>>

reject_block_M(block_hash) ==
    /\ LET i == FindBlock(blocks, block_hash) IN
         /\ blocks' = IF i # 0 /\ blocks[i].status = "pending"
                      THEN [blocks EXCEPT ![i].status = "rejected"]
                      ELSE blocks
         /\ last' = Call("reject_block", block_hash, "-", StatusAt(blocks, i), "None")
    /\ UNCHANGED <<min_validators, validators>>

RejectedStatus_M == "pending"

\* block.status = "rejected": the status reject_block writes
RejectedStatus == "rejected"

\* Consensus.reject_block
reject_block(block_hash) ==
    /\ LET i == FindBlock(blocks, block_hash) IN
         /\ blocks' = IF i # 0
                      THEN [blocks EXCEPT ![i].status = RejectedStatus]
                      ELSE blocks
         /\ last' = Call("reject_block", block_hash, "-", StatusAt(blocks, i), "None")
    /\ UNCHANGED <<min_validators, validators>>

\* Consensus.get_validated_changes
get_validated_changes(bs) ==
    LET F[k \in 0..Len(bs)] ==
          IF k = 0 THEN <<>>
          ELSE IF bs[k].status = "validated"
               THEN Append(F[k - 1], bs[k].changes)
               ELSE F[k - 1]
    IN F[Len(bs)]

get_pending_changes_M(bs) ==
    LET F[k \in 0..Len(bs)] ==
          IF k = 0 THEN <<>>
          ELSE IF bs[k].status # "validated"
               THEN Append(F[k - 1], bs[k].changes)
               ELSE F[k - 1]
    IN F[Len(bs)]

\* Consensus.get_pending_changes
get_pending_changes(bs) ==
    LET F[k \in 0..Len(bs)] ==
          IF k = 0 THEN <<>>
          ELSE IF bs[k].status = "pending"
               THEN Append(F[k - 1], bs[k].changes)
               ELSE F[k - 1]
    IN F[Len(bs)]

\* hashes a caller may pass: those in the ledger, the zero string, and one
\* digest that is in the ledger in some states and unknown in the others
HashArgs ==
    {blocks[k].hash : k \in 1..Len(blocks)} \cup {ZeroHash}
      \cup {sha256(BlockData(1, "n1", "c1", ZeroHash))}

\* one more call is made on the Consensus object, while the sequence is
\* shorter than MaxCalls; the EvolutionaryConsensus object is not touched
Called == calls < MaxCalls /\ calls' = calls + 1 /\ UNCHANGED <<evars, xvars>>

\* the call returns no list
NoList == out' = <<>>

AddValidator == Called /\ NoList /\ \E n \in Registered : add_validator(n)
CreateBlock ==
    Called /\ NoList
      /\ \E n \in Producers, c \in ChangeSet, t \in 1..MaxTime : create_block(n, c, t)
ValidateBlock == Called /\ NoList /\ \E h \in HashArgs, v \in NodeIds : validate_block(h, v)
RejectBlock == Called /\ NoList /\ \E h \in HashArgs : reject_block(h)

\* a caller reads the validated changes: Consensus.get_validated_changes
GetValidatedChanges ==
    /\ Called
    /\ out' = get_validated_changes(blocks)
    /\ last' = Call("get_validated_changes", ZeroHash, "-", "-", "List")
    /\ UNCHANGED cvars

\* a caller reads the pending changes: Consensus.get_pending_changes
GetPendingChanges ==
    /\ Called
    /\ out' = get_pending_changes(blocks)
    /\ last' = Call("get_pending_changes", ZeroHash, "-", "-", "List")
    /\ UNCHANGED cvars

Next ==
    \/ AddValidator \/ CreateBlock \/ ValidateBlock \/ RejectBlock
    \/ GetValidatedChanges \/ GetPendingChanges

Spec == Init /\ [][Next]_vars

TypeOK ==
    /\ min_validators \in 1..MaxMinValidators
    /\ calls \in 0..MaxCalls
    /\ Len(blocks) <= MaxBlocks
    /\ \A k \in 1..Len(blocks) :
          blocks[k].status \in {"pending", "validated", "rejected"}

(* ----------------------- EvolutionaryConsensus ------------------------- *)
\* longest sequence of calls made on the EvolutionaryConsensus object
MaxEvoCalls == 6
\* longest sequence of calls in the deep exploration with two proposals
MaxDeepCalls == 11

\* Scores (fitness_score, reputation) are decimal fractions, held exactly as
\* a whole number of units of 1/ScoreScale.  A fitness is given in tenths,
\* and every 0.7 * r + 0.3 * f adds one decimal: the scale leaves room for
\* the longest sequence of updates explored.
ScoreScale == 100000000
Tenths(f) == f * (ScoreScale \div 10)

\* if self.node_reputation[node_id] < 0.5 / self.node_reputation[node_id] = 0.5
ReputationThreshold == 5
DefaultReputation == 5
\* if len(self.proposals) < 5
EvolutionPoolSize == 5
\* best_proposals = sorted_proposals[:3]
BestCount == 3
\* len(justification) > 100 and len(justification.split()) > 20
MinJustificationLen == 100
MinJustificationWords == 20
\* timestamp of get_current_rule when the history is empty (None)
NoTimestamp == 0

\* required_params = ["threshold", "timeout", "min_validators"]
RequiredParams == {"threshold", "timeout", "min_validators"}

\* A justification string: `words` words of `letters` letters each, single
\* blanks between them, `pad` blanks at the end.
JustificationText(j) ==
    LET body == j.words * (j.letters + 1) - 1
    IN [i \in 1..(body + j.pad) |->
          IF i <= body /\ i % (j.letters + 1) # 0 THEN "a" ELSE " "]

\* len(justification.split()): the number of maximal runs of non-blanks
SplitCount(text) ==
    Cardinality({i \in 1..Len(text) :
                    text[i] # " " /\ (i = 1 \/ text[i - 1] = " ")})

_validate_parameters_M(parameters) ==
    \E param \in RequiredParams : param \in DOMAIN parameters

\* EvolutionaryConsensus._validate_parameters
_validate_parameters(parameters) ==
    \A param \in RequiredParams : param \in DOMAIN parameters

_validate_justification_M(justification) ==
    LET text == JustificationText(justification)
    IN Len(text) >= MinJustificationLen /\ SplitCount(text) > MinJustificationWords

\* EvolutionaryConsensus._validate_justification
_validate_justification(justification) ==
    LET text == JustificationText(justification)
    IN Len(text) > MinJustificationLen /\ SplitCount(text) > MinJustificationWords

_validate_proposal_M(proposal) ==
    IF ~_validate_parameters(proposal.parameters) THEN FALSE
    ELSE IF ~_validate_justification(proposal.justification) THEN FALSE
    ELSE TRUE

\* EvolutionaryConsensus._validate_proposal
_validate_proposal(proposal) ==
    IF ~_validate_parameters(proposal.parameters) THEN FALSE
    ELSE IF ~_validate_justification(proposal.justification) THEN FALSE
    ELSE IF proposal.node_id \in DOMAIN node_reputation
            /\ node_reputation[proposal.node_id] < Tenths(ReputationThreshold)
         THEN FALSE
         ELSE TRUE

\* self.node_reputation[node_id] = value
SetReputation(reputation, node_id, value) ==
    [n \in DOMAIN reputation \cup {node_id} |->
        IF n = node_id THEN value ELSE reputation[n]]

_update_node_reputation_NoDecay(reputation, node_id, fitness_score) ==
    LET prior == IF node_id \in DOMAIN reputation
                 THEN reputation[node_id] ELSE Tenths(DefaultReputation)
    IN SetReputation(reputation, node_id, prior + (3 * fitness_score) \div 10)

_update_node_reputation_M(reputation, node_id, fitness_score) ==
    LET prior == IF node_id \in DOMAIN reputation
                 THEN reputation[node_id] ELSE Tenths(DefaultReputation)
    IN SetReputation(reputation, node_id, (3 * prior + 7 * fitness_score) \div 10)

\* EvolutionaryConsensus._update_node_reputation: 0.7 * prior + 0.3 * fitness
_update_node_reputation(reputation, node_id, fitness_score) ==
    LET prior == IF node_id \in DOMAIN reputation
                 THEN reputation[node_id] ELSE Tenths(DefaultReputation)
    IN SetReputation(reputation, node_id, (7 * prior + 3 * fitness_score) \div 10)

RECURSIVE SortedByFitness_M(_)
SortedByFitness_M(ps) ==
    IF ps = <<>> THEN <<>>
    ELSE LET first == CHOOSE i \in 1..Len(ps) :
                         /\ \A j \in 1..Len(ps) : ps[j].fitness_score <= ps[i].fitness_score
                         /\ \A j \in (i + 1)..Len(ps) : ps[j].fitness_score < ps[i].fitness_score
             rest == [j \in 1..(Len(ps) - 1) |-> IF j < first THEN ps[j] ELSE ps[j + 1]]
         IN <<ps[first]>> \o SortedByFitness_M(rest)

\* sorted(self.proposals, key=lambda x: x.fitness_score, reverse=True):
\* stable, so proposals of equal fitness keep their pool order
RECURSIVE SortedByFitness(_)
SortedByFitness(ps) ==
    IF ps = <<>> THEN <<>>
    ELSE LET first == CHOOSE i \in 1..Len(ps) :
                         /\ \A j \in 1..Len(ps) : ps[j].fitness_score <= ps[i].fitness_score
                         /\ \A j \in 1..(i - 1) : ps[j].fitness_score < ps[i].fitness_score
             rest == [j \in 1..(Len(ps) - 1) |-> IF j < first THEN ps[j] ELSE ps[j + 1]]
         IN <<ps[first]>> \o SortedByFitness(rest)

BestProposals_M(ps) == SubSeq(ps, 1, BestCount)

\* best_proposals = sorted_proposals[:3]
BestProposals(ps) == SubSeq(SortedByFitness(ps), 1, BestCount)

RECURSIVE SumOf(_)
SumOf(values) == IF values = <<>> THEN 0 ELSE values[1] + SumOf(Tail(values))

\* np.mean(values), held exactly as the fraction sum / count
Mean(values) == [sum |-> SumOf(values), count |-> Len(values)]

\* p.parameters[key] raises KeyError when a selected proposal lacks a key
\* of the first selected proposal
KeyErrorIn(best) ==
    \E key \in DOMAIN best[1].parameters, k \in 1..Len(best) :
        key \notin DOMAIN best[k].parameters

\* EvolutionaryConsensus._create_new_rule (when no KeyError is raised)
_create_new_rule(best, now) ==
    [rule_type |-> "evolutionary",
     parameters |-> [key \in DOMAIN best[1].parameters |->
                        Mean([k \in 1..Len(best) |-> best[k].parameters[key]])],
     timestamp |-> now,
     proposals_used |-> [k \in 1..Len(best) |-> best[k].node_id]]

\* what the caller observes of a call on EvolutionaryConsensus: the method,
\* the proposal passed, the value returned and the error that was logged
EvoCall(op, proposal, ret, error) ==
    [op |-> op, proposal |-> proposal, ret |-> ret, error |-> error]

AppendHistory_M(history, new_rule) == <<new_rule>>

\* rule_history.append(new_rule) in _apply_new_rule
AppendHistory(history, new_rule) == Append(history, new_rule)

\* EvolutionaryConsensus.propose_rule with _check_evolution, _create_new_rule,
\* _evaluate_improvement (always True), _apply_new_rule and
\* _save_evolution_history; now is what datetime.now() returns and save_ok
\* tells whether writing the history file succeeds
propose_rule(proposal, now, save_ok) ==
    IF ~_validate_proposal(proposal)
    THEN /\ last' = EvoCall("propose_rule", proposal, "False", "-")
         /\ UNCHANGED evars
    ELSE LET pool == Append(proposals, proposal)
             reputation == _update_node_reputation(node_reputation,
                               proposal.node_id, Tenths(proposal.fitness_score))
         IN /\ node_reputation' = reputation
            /\ IF Len(pool) < EvolutionPoolSize
               THEN /\ proposals' = pool
                    /\ last' = EvoCall("propose_rule", proposal, "True", "-")
                    /\ UNCHANGED <<current_rule, rule_history>>
               ELSE LET best == BestProposals(pool) IN
                      IF KeyErrorIn(best)
                      THEN /\ proposals' = pool
                           /\ last' = EvoCall("propose_rule", proposal, "False", "KeyError")
                           /\ UNCHANGED <<current_rule, rule_history>>
                      ELSE LET new_rule == _create_new_rule(best, now) IN
                             /\ current_rule' = new_rule.rule_type
                             /\ rule_history' = AppendHistory(rule_history, new_rule)
                             /\ proposals' = <<>>
                             /\ last' = IF save_ok
                                        THEN EvoCall("propose_rule", proposal, "True", "-")
                                        ELSE EvoCall("propose_rule", proposal, "False", "OSError")

LatestRule_M(history) == history[1]

\* self.rule_history[-1]
LatestRule(history) == history[Len(history)]

\* EvolutionaryConsensus.get_current_rule; {} is the empty function
get_current_rule ==
    [rule_type |-> current_rule,
     parameters |-> IF rule_history # <<>>
                    THEN LatestRule(rule_history).parameters ELSE <<>>,
     timestamp |-> IF rule_history # <<>>
                   THEN LatestRule(rule_history).timestamp ELSE NoTimestamp]

\* EvolutionaryConsensus.get_evolution_history
get_evolution_history == rule_history

\* justifications: one that passes, the shortest passing one with 21 words,
\* one of 100 characters, one of 20 words
GoodJustification == [words |-> 21, letters |-> 4, pad |-> 0]
JustPassing == [words |-> 21, letters |-> 3, pad |-> 18]
TooShort == [words |-> 21, letters |-> 3, pad |-> 17]
TooFewWords == [words |-> 20, letters |-> 5, pad |-> 0]

\* parameter dicts: two with the required keys, one with a further key, one
\* without min_validators
ParamsA == [threshold |-> 6, timeout |-> 30, min_validators |-> 3]
ParamsB == [threshold |-> 9, timeout |-> 60, min_validators |-> 5]
ParamsExtra == [threshold |-> 7, timeout |-> 30, min_validators |-> 4, weight |-> 1]
ParamsMissing == [threshold |-> 6, timeout |-> 30]

Proposal(node_id, rule_type, parameters, fitness_score, justification) ==
    [node_id |-> node_id, rule_type |-> rule_type, parameters |-> parameters,
     fitness_score |-> fitness_score, timestamp |-> 1,
     justification |-> justification]

\* the proposals submitted: fitness in tenths; the last four fail the gate
\* on their parameters or their justification, the fourth is low enough to
\* take its proposer below the threshold
Candidates ==
    { Proposal("n1", "majority", ParamsA, 10, GoodJustification),
      Proposal("n2", "weighted", ParamsB, 8, JustPassing),
      Proposal("n1", "reputation", ParamsExtra, 9, GoodJustification),
      Proposal("n3", "majority", ParamsB, 2, GoodJustification),
      Proposal("n2", "evolutionary", ParamsA, 10, GoodJustification),
      Proposal("n2", "majority", ParamsMissing, 10, GoodJustification),
      Proposal("n2", "majority", ParamsA, 10, TooShort),
      Proposal("n2", "majority", ParamsA, 10, TooFewWords) }

\* the two proposals of the deep exploration: both pass the gate and keep
\* their proposers at 0.5
DeepCandidates ==
    { Proposal("n1", "majority", ParamsA, 5, GoodJustification),
      Proposal("n2", "weighted", ParamsB, 5, GoodJustification) }

\* one more call is made on the EvolutionaryConsensus object, while the
\* sequence is shorter than max; the Consensus object is not touched
EvoCalled(max) == calls < max /\ calls' = calls + 1 /\ UNCHANGED <<cvars, xvars>>

ProposeFrom(cands, max) ==
    /\ EvoCalled(max)
    /\ out' = <<>>
    /\ \E p \in cands, now \in 1..MaxTime, save_ok \in BOOLEAN : propose_rule(p, now, save_ok)

CurrentRuleRead(max) ==
    /\ EvoCalled(max)
    /\ out' = get_current_rule
    /\ last' = EvoCall("get_current_rule", <<>>, "Dict", "-")
    /\ UNCHANGED evars

HistoryRead(max) ==
    /\ EvoCalled(max)
    /\ out' = get_evolution_history
    /\ last' = EvoCall("get_evolution_history", <<>>, "List", "-")
    /\ UNCHANGED evars

ProposeRule == ProposeFrom(Candidates, MaxEvoCalls)
GetCurrentRule == CurrentRuleRead(MaxEvoCalls)
GetEvolutionHistory == HistoryRead(MaxEvoCalls)

\* the node constructs Consensus() with the default quorum beside it
EvoInit == Init /\ min_validators = DefaultMinValidators

EvoNext == ProposeRule \/ GetCurrentRule \/ GetEvolutionHistory

EvoSpec == EvoInit /\ [][EvoNext]_vars

DeepProposeRule == ProposeFrom(DeepCandidates, MaxDeepCalls)
DeepGetCurrentRule == CurrentRuleRead(MaxDeepCalls)
DeepGetEvolutionHistory == HistoryRead(MaxDeepCalls)

DeepNext == DeepProposeRule \/ DeepGetCurrentRule \/ DeepGetEvolutionHistory

EvoDeepSpec == EvoInit /\ [][DeepNext]_vars

EvoTypeOK ==
    /\ current_rule \in {"majority", "weighted", "reputation", "evolutionary"}
    /\ DOMAIN node_reputation \subseteq NodeIds
    /\ \A n \in DOMAIN node_reputation : node_reputation[n] \in 0..ScoreScale

(* ------------------------------ GemmaNode ------------------------------ *)
\* longest sequence of calls made on the GemmaNode objects
MaxNodeCalls == 4

\* if max_update > 1.0 / if metrics.get("learning_rate", 0) > 0.1, both
\* held in hundredths
MaxWeightUpdate == 100
MaxLearningRate == 10

\* the changes a node builds in learn_from_experience, named by what the
\* fine-tuning produced
NodeChangeSet == {"u_ok", "u_edge", "u_big", "u_fast"}

\* changes["model_updates"]: max(weight_updates.values()) and
\* performance_metrics["learning_rate"] of each payload, in hundredths
ModelUpdates(changes) ==
    CASE changes = "u_ok" -> [max_update |-> 50, learning_rate |-> 5]
      [] changes = "u_edge" -> [max_update |-> 100, learning_rate |-> 10]
      [] changes = "u_big" -> [max_update |-> 101, learning_rate |-> 5]
      [] changes = "u_fast" -> [max_update |-> 50, learning_rate |-> 11]

\* GemmaNode._validate_changes
_validate_changes(changes) ==
    LET updates == ModelUpdates(changes) IN
      IF updates.max_update > MaxWeightUpdate THEN FALSE
      ELSE IF updates.learning_rate > MaxLearningRate THEN FALSE
      ELSE TRUE

\* Consensus.create_block on the Consensus object c of a node
CreateBlockOn(c, node_id, changes, timestamp) ==
    LET previous_hash == PreviousHash(c.blocks)
        block_hash == sha256(BlockData(timestamp, node_id, changes, previous_hash))
    IN [c EXCEPT !.blocks =
           Append(@, Block(timestamp, node_id, changes, previous_hash, block_hash))]

\* Consensus.validate_block on the Consensus object c of a node: the object
\* after the call and the value returned
ValidateBlockOn(c, block_hash, validator_id) ==
    LET i == FindBlock(c.blocks, block_hash) IN
      IF i = 0
      THEN [consensus |-> c, ret |-> "False"]
      ELSE IF NotYetValidator(validator_id, c.blocks[i].validators)
           THEN LET vs == Append(c.blocks[i].validators, validator_id) IN
                  IF QuorumReached(vs, c.min_validators)
                  THEN [consensus |-> [c EXCEPT !.blocks[i].validators = vs,
                                                !.blocks[i].status = "validated"],
                        ret |-> "True"]
                  ELSE [consensus |-> [c EXCEPT !.blocks[i].validators = vs],
                        ret |-> "False"]
           ELSE [consensus |-> c, ret |-> "False"]

\* what the caller observes of a call on a GemmaNode: the method, the node
\* called, the node that created the block concerned, its hash, the value
\* returned
NodeCall(op, id, owner, hash, ret) ==
    [op |-> op, id |-> id, owner |-> owner, hash |-> hash, ret |-> ret]

\* GemmaNode.learn_from_experience: changes is what the fine-tuning left in
\* _get_model_updates(), handed to create_block as it is
learn_from_experience(n, changes, timestamp) ==
    /\ Len(nodes[n].consensus.blocks) < MaxBlocks
    /\ LET c == CreateBlockOn(nodes[n].consensus, nodes[n].id, changes, timestamp)
       IN /\ nodes' = [nodes EXCEPT ![n].consensus = c]
          /\ last' = NodeCall("learn_from_experience", n, n,
                              c.blocks[Len(c.blocks)].hash, "Block")

\* GemmaNode.validate_changes on a Block object
validate_changes(n, owner, block) ==
    IF ~nodes[n].is_validator
    THEN /\ nodes' = nodes
         /\ last' = NodeCall("validate_changes", n, owner, block.hash, "False")
    ELSE IF _validate_changes(block.changes)
         THEN LET r == ValidateBlockOn(nodes[n].consensus, block.hash, nodes[n].id)
              IN /\ nodes' = [nodes EXCEPT
                                ![n].validation_count = @ + 1,
                                ![n].validation_success = @ + 1,
                                ![n].consensus = r.consensus]
                 /\ last' = NodeCall("validate_changes", n, owner, block.hash, r.ret)
         ELSE /\ nodes' = nodes
              /\ last' = NodeCall("validate_changes", n, owner, block.hash, "False")

\* one more call is made on a GemmaNode, while the sequence is shorter than
\* MaxNodeCalls; no other object is touched
NodeCalled ==
    /\ calls < MaxNodeCalls
    /\ calls' = calls + 1
    /\ UNCHANGED <<cvars, evars, threads, out>>

LearnFromExperience ==
    /\ NodeCalled
    /\ \E n \in GemmaIds, c \in NodeChangeSet, t \in 1..MaxTime :
          learn_from_experience(n, c, t)

\* a node is handed a block of some node's ledger (its own included)
ValidateChanges ==
    /\ NodeCalled
    /\ \E n \in GemmaIds, owner \in GemmaIds :
          \E k \in 1..Len(nodes[owner].consensus.blocks) :
              validate_changes(n, owner, nodes[owner].consensus.blocks[k])

NodeInit == Init /\ min_validators = DefaultMinValidators

NodeNext == LearnFromExperience \/ ValidateChanges

NodeSpec == NodeInit /\ [][NodeNext]_vars

NodeTypeOK ==
    \A n \in GemmaIds :
        /\ nodes[n].id = n
        /\ nodes[n].validation_count \in 0..MaxNodeCalls
        /\ Len(nodes[n].consensus.blocks) <= MaxBlocks

(* ------------------- concurrent calls on one Consensus ----------------- *)
\* Neither class holds a lock.  A thread runs a method statement by
\* statement, and another thread may run between any two accesses to the
\* shared object; a step below is one such access with the local
\* computation around it.  pc names the source line the thread executes
\* next.

\* longest sequence of calls begun by the threads
MaxConcCalls == 4

\* node identities that produce blocks concurrently, and that validate
ConcProducers == {"n1", "n2"}
ConcValidators == {"n1", "n2"}

\* the thread t returns from its call
Returned(t) == [threads EXCEPT ![t] = Idle]

\* a thread begins a call on the shared Consensus object
ConcCalled(t) ==
    /\ threads[t] = Idle
    /\ calls < MaxConcCalls
    /\ calls' = calls + 1

\* create_block, lines 32-46: previous_hash is read from the ledger, the
\* clock is read, and the Block is built in the thread (while the ledger,
\* with the blocks being built, is shorter than MaxBlocks)
CreateStart(t) ==
    /\ ConcCalled(t)
    /\ Len(blocks) + Cardinality({u \in Threads : threads[u].pc = "l48"}) < MaxBlocks
    /\ \E node_id \in ConcProducers, changes \in ChangeSet, timestamp \in 1..MaxTime :
          LET previous_hash == PreviousHash(blocks)
              block_hash == sha256(BlockData(timestamp, node_id, changes, previous_hash))
          IN threads' = [threads EXCEPT ![t] =
                 [pc |-> "l48",
                  block |-> Block(timestamp, node_id, changes, previous_hash, block_hash)]]
    /\ UNCHANGED <<cvars, evars, nodes, last, out>>

\* create_block, lines 48-49: self.blocks.append(block); return block
CreateAppend(t) ==
    /\ threads[t].pc = "l48"
    /\ blocks' = Append(blocks, threads[t].block)
    /\ last' = Call("create_block", threads[t].block.hash,
                    threads[t].block.node_id, "-", "Block")
    /\ threads' = Returned(t)
    /\ UNCHANGED <<min_validators, validators, evars, nodes, calls, out>>

\* validate_block, lines 53-55: the block is looked up
ValidateStart(t) ==
    /\ ConcCalled(t)
    /\ \E block_hash \in HashArgs, validator_id \in ConcValidators :
          LET i == FindBlock(blocks, block_hash) IN
            IF i = 0
            THEN /\ threads' = threads
                 /\ last' = Call("validate_block", block_hash, validator_id, "-", "False")
            ELSE /\ threads' = [threads EXCEPT ![t] =
                        [pc |-> "l57", i |-> i, validator_id |-> validator_id,
                         was |-> blocks[i].status]]
                 /\ last' = last
    /\ UNCHANGED <<cvars, evars, nodes, out>>

\* validate_block, line 57: if validator_id not in block.validators
ValidateCheck(t) ==
    /\ threads[t].pc = "l57"
    /\ LET i == threads[t].i IN
         IF NotYetValidator(threads[t].validator_id, blocks[i].validators)
         THEN /\ threads' = [threads EXCEPT ![t].pc = "l58"]
              /\ last' = last
         ELSE /\ threads' = Returned(t)
              /\ last' = Call("validate_block", blocks[i].hash,
                              threads[t].validator_id, threads[t].was, "False")
    /\ UNCHANGED <<cvars, evars, nodes, calls, out>>

\* validate_block, line 58: block.validators.append(validator_id)
ValidateAppend(t) ==
    /\ threads[t].pc = "l58"
    /\ blocks' = [blocks EXCEPT ![threads[t].i].validators =
                      Append(@, threads[t].validator_id)]
    /\ threads' = [threads EXCEPT ![t].pc = "l61"]
    /\ UNCHANGED <<min_validators, validators, evars, nodes, last, calls, out>>

\* validate_block, lines 61-65: the length is compared with min_validators
ValidateQuorum(t) ==
    /\ threads[t].pc = "l61"
    /\ LET i == threads[t].i IN
         IF QuorumReached(blocks[i].validators, min_validators)
         THEN /\ blocks' = [blocks EXCEPT ![i].status = "validated"]
              /\ last' = Call("validate_block", blocks[i].hash,
                              threads[t].validator_id, threads[t].was, "True")
         ELSE /\ blocks' = blocks
              /\ last' = Call("validate_block", blocks[i].hash,
                              threads[t].validator_id, threads[t].was, "False")
    /\ threads' = Returned(t)
    /\ UNCHANGED <<min_validators, validators, evars, nodes, calls, out>>

ConcCreateStart == \E t \in Threads : CreateStart(t)
ConcCreateAppend == \E t \in Threads : CreateAppend(t)
ConcValidateStart == \E t \in Threads : ValidateStart(t)
ConcValidateCheck == \E t \in Threads : ValidateCheck(t)
ConcValidateAppend == \E t \in Threads : ValidateAppend(t)
ConcValidateQuorum == \E t \in Threads : ValidateQuorum(t)

ConcNext ==
    \/ ConcCreateStart \/ ConcCreateAppend
    \/ ConcValidateStart \/ ConcValidateCheck
    \/ ConcValidateAppend \/ ConcValidateQuorum

ConcSpec == Init /\ [][ConcNext]_vars

(* ------------ concurrent calls on one EvolutionaryConsensus ------------ *)
\* longest sequence of propose_rule calls begun by the threads
MaxConcProposals == 6

\* a thread begins a propose_rule call
ProposeCalled(t) ==
    /\ threads[t] = Idle
    /\ calls < MaxConcProposals
    /\ calls' = calls + 1

\* propose_rule, lines 47-54: the gate, self.proposals.append(proposal) and
\* the reputation update
ProposeStart(t) ==
    /\ ProposeCalled(t)
    /\ \E proposal \in DeepCandidates :
          IF ~_validate_proposal(proposal)
          THEN /\ last' = EvoCall("propose_rule", proposal, "False", "-")
               /\ threads' = threads
               /\ UNCHANGED <<proposals, node_reputation>>
          ELSE /\ proposals' = Append(proposals, proposal)
               /\ node_reputation' =
                     _update_node_reputation(node_reputation, proposal.node_id,
                                             Tenths(proposal.fitness_score))
               /\ threads' = [threads EXCEPT ![t] =
                                 [pc |-> "l104", proposal |-> proposal]]
               /\ last' = last
    /\ UNCHANGED <<cvars, current_rule, rule_history, nodes, out>>

\* _check_evolution, lines 104-118: the pool is measured, sorted and the
\* new rule built from the 3 best, all in the thread
ProposeCheck(t) ==
    /\ threads[t].pc = "l104"
    /\ IF Len(proposals) < EvolutionPoolSize
       THEN /\ threads' = Returned(t)
            /\ last' = EvoCall("propose_rule", threads[t].proposal, "True", "-")
       ELSE LET best == BestProposals(proposals) IN
              IF KeyErrorIn(best)
              THEN /\ threads' = Returned(t)
                   /\ last' = EvoCall("propose_rule", threads[t].proposal,
                                      "False", "KeyError")
              ELSE /\ \E now \in 1..MaxTime :
                        threads' = [threads EXCEPT ![t] =
                            [pc |-> "l123", proposal |-> threads[t].proposal,
                             new_rule |-> _create_new_rule(best, now)]]
                   /\ last' = last
    /\ UNCHANGED <<cvars, evars, nodes, calls, out>>

\* _apply_new_rule and _save_evolution_history, lines 150-160, then return
ProposeApply(t) ==
    /\ threads[t].pc = "l123"
    /\ current_rule' = threads[t].new_rule.rule_type
    /\ rule_history' = AppendHistory(rule_history, threads[t].new_rule)
    /\ proposals' = <<>>
    /\ \E save_ok \in BOOLEAN :
          last' = IF save_ok
                  THEN EvoCall("propose_rule", threads[t].proposal, "True", "-")
                  ELSE EvoCall("propose_rule", threads[t].proposal, "False", "OSError")
    /\ threads' = Returned(t)
    /\ UNCHANGED <<cvars, node_reputation, nodes, calls, out>>

ConcProposeStart == \E t \in Threads : ProposeStart(t)
ConcProposeCheck == \E t \in Threads : ProposeCheck(t)
ConcProposeApply == \E t \in Threads : ProposeApply(t)

ConcProposeNext == ConcProposeStart \/ ConcProposeCheck \/ ConcProposeApply

ConcProposeSpec == EvoInit /\ [][ConcProposeNext]_vars

(* ------------------------------ claims --------------------------------- *)
\* the hashes of the ledger
LedgerHashes == {blocks[k].hash : k \in 1..Len(blocks)}

\* the step is a call of validate_block / reject_block (every call is
\* recorded in last, so last' tells which call a step is)
IsValidate == last'.op = "validate_block"
IsReject == last'.op = "reject_block"

\* the ledger without its k-th block
WithoutBlock(bs, k) == [j \in 1..(Len(bs) - 1) |-> IF j < k THEN bs[j] ELSE bs[j + 1]]

\* C1: chain integrity. In every state reached by create_block, validate_block
\* and reject_block calls made one at a time, the first block's previous_hash
\* is the zero string and every later block's previous_hash is the hash of the
\* block just before it in the ledger.
C1_ChainIntegrity ==
    \A k \in 1..Len(blocks) :
        blocks[k].previous_hash = IF k = 1 THEN ZeroHash ELSE blocks[k - 1].hash

\* a ledger of two blocks, the first rejected and the second validated
C1_Witness ==
    /\ Len(blocks) >= 2
    /\ blocks[1].status = "rejected"
    /\ blocks[2].status = "validated"
    /\ blocks[2].previous_hash # ZeroHash

\* C2: quorum rule. A validate_block call on a pending block by a validator
\* not yet in its list appends the validator; if the block then has at least
\* min_validators distinct validators the status becomes validated and the
\* call returns True, otherwise the status stays pending and it returns False.
C2_QuorumRule ==
    [][\A k \in 1..Len(blocks) :
         ( /\ IsValidate
           /\ blocks[k].hash = last'.hash
           /\ blocks[k].status = "pending"
           /\ last'.id \notin Range(blocks[k].validators) )
         => /\ blocks'[k].validators = Append(blocks[k].validators, last'.id)
            /\ IF Cardinality(Range(blocks'[k].validators)) >= min_validators
               THEN blocks'[k].status = "validated" /\ last'.ret = "True"
               ELSE blocks'[k].status = "pending" /\ last'.ret = "False"
            /\ \A j \in 1..Len(blocks) : j # k => blocks'[j] = blocks[j]]_vars

\* min_validators = 3: n1 and n2 were told False, n3 is told True
C2_Witness ==
    /\ min_validators = 3
    /\ \E k \in 1..Len(blocks) :
          /\ blocks[k].validators = <<"n1", "n2", "n3">>
          /\ blocks[k].status = "validated"
          /\ last = Call("validate_block", blocks[k].hash, "n3", "pending", "True")

\* C3: with the default min_validators, a block that was created and then
\* validated by two distinct validators has status validated.
C3_TwoValidatorsSuffice ==
    min_validators = DefaultMinValidators =>
        \A k \in 1..Len(blocks) :
            ( /\ last.op = "validate_block"
              /\ last.hash = blocks[k].hash
              /\ last.was = "pending"
              /\ Cardinality(Range(blocks[k].validators)) = 2 )
            => blocks[k].status = "validated"

\* C4: validate_block on a rejected block returns False and leaves the
\* block's validators and status as they were.
C4_ValidateRejectedIsNoOp ==
    [][\A k \in 1..Len(blocks) :
         ( /\ IsValidate
           /\ blocks[k].hash = last'.hash
           /\ blocks[k].status = "rejected" )
         => /\ last'.ret = "False"
            /\ blocks'[k].validators = blocks[k].validators
            /\ blocks'[k].status = blocks[k].status]_vars

\* C5: rejection is terminal. A block whose status is rejected keeps that
\* status over every later call.
C5_RejectionTerminal ==
    [][\A k \in 1..Len(blocks) :
         blocks[k].status = "rejected" => blocks'[k].status = "rejected"]_vars

\* C6: validate_block on a validated block returns False and changes
\* nothing, also for a validator that has not validated the block before
\* (so at most one validate_block call per block returns True).
C6_ValidateValidatedIsNoOp ==
    [][\A k \in 1..Len(blocks) :
         ( /\ IsValidate
           /\ blocks[k].hash = last'.hash
           /\ blocks[k].status = "validated" )
         => /\ last'.ret = "False"
            /\ blocks' = blocks]_vars

\* C7: quorum monotonicity. A block whose status is validated never has
\* status pending after any later call.
C7_QuorumMonotonicity ==
    [][\A k \in 1..Len(blocks) :
         blocks[k].status = "validated" => blocks'[k].status # "pending"]_vars

\* a validated block was rejected by the call just made
C7_Witness ==
    \E k \in 1..Len(blocks) :
        /\ last.op = "reject_block"
        /\ last.hash = blocks[k].hash
        /\ last.was = "validated"
        /\ blocks[k].status # "pending"

\* no validator id occurs twice in a block's validators list
NoDuplicateValidators(bs) ==
    \A k \in 1..Len(bs) :
        \A a, b \in 1..Len(bs[k].validators) :
            a # b => bs[k].validators[a] # bs[k].validators[b]

\* C8: validator set idempotence. No block's validators list ever holds an
\* id twice; a validate_block(h, v) call lengthens the list of the block by
\* at most one and leaves v in it, and a call with a v already in the list
\* leaves the list as it is (so two calls with the same v add at most one).
C8_ValidatorIdempotence ==
    [][/\ NoDuplicateValidators(blocks')
       /\ \A k \in 1..Len(blocks) :
            (IsValidate /\ blocks[k].hash = last'.hash)
            => /\ Len(blocks'[k].validators) <= Len(blocks[k].validators) + 1
               /\ last'.id \in Range(blocks'[k].validators)
               /\ last'.id \in Range(blocks[k].validators)
                    => blocks'[k].validators = blocks[k].validators]_vars

\* a pending block was validated again by a validator that is in its list
\* but is not the one appended last
C8_Witness ==
    \E k \in 1..Len(blocks) :
        /\ last.op = "validate_block"
        /\ last.hash = blocks[k].hash
        /\ last.was = "pending"
        /\ blocks[k].status = "pending"
        /\ Len(blocks[k].validators) >= 2
        /\ last.id = blocks[k].validators[1]

\* C9: unknown-block handling. validate_block with a hash that no block of
\* the ledger has returns False, reject_block with such a hash returns
\* (None), and both leave every block and the validator registry unchanged.
C9_UnknownBlock ==
    [][(last'.hash \notin LedgerHashes) =>
          /\ IsValidate =>
                last'.ret = "False" /\ blocks' = blocks /\ validators' = validators
          /\ IsReject =>
                last'.ret = "None" /\ blocks' = blocks /\ validators' = validators]_vars

\* a hash that is no block's was passed to validate_block on a ledger that
\* holds a pending block and with a validator registered
C9_Witness ==
    /\ last.op = "validate_block"
    /\ last.hash # ZeroHash
    /\ last.hash \notin LedgerHashes
    /\ last.ret = "False"
    /\ validators # <<>>
    /\ \E k \in 1..Len(blocks) : blocks[k].status = "pending"

\* C10: reject_block on a validated block sets its status to rejected and
\* keeps its validators, and get_validated_changes then returns what it
\* returns on the ledger without that block.
C10_RejectValidated ==
    [][\A k \in 1..Len(blocks) :
         ( /\ IsReject
           /\ blocks[k].hash = last'.hash
           /\ blocks[k].status = "validated" )
         => /\ blocks'[k].status = "rejected"
            /\ blocks'[k].validators = blocks[k].validators
            /\ get_validated_changes(blocks')
                 = get_validated_changes(WithoutBlock(blocks, k))
            /\ Len(get_validated_changes(blocks'))
                 = Len(get_validated_changes(blocks)) - 1]_vars

\* two validated blocks, one of them then rejected: only the other's
\* changes are returned
C10_Witness ==
    /\ Len(blocks) >= 2
    /\ last = Call("reject_block", blocks[1].hash, "-", "validated", "None")
    /\ blocks[1].status = "rejected"
    /\ Len(blocks[1].validators) >= min_validators
    /\ blocks[2].status = "validated"
    /\ get_validated_changes(blocks) = <<blocks[2].changes>>

\* C11: quorum does not look at the registry. A validate_block call on a
\* block of the ledger is decided by that block's own validators list, the
\* id passed and min_validators alone: an id already in the list changes
\* nothing and returns False, a new id is appended and the call returns True
\* with status validated exactly when the list then has min_validators
\* entries, whether or not the id was ever registered; add_validator leaves
\* every block as it is.
C11_RegistryIndependence ==
    [][/\ (last'.op = "add_validator") => (blocks' = blocks)
       /\ \A k \in 1..Len(blocks) :
            (IsValidate /\ blocks[k].hash = last'.hash) =>
               LET grown == Append(blocks[k].validators, last'.id) IN
                 IF last'.id \in Range(blocks[k].validators)
                 THEN blocks'[k] = blocks[k] /\ last'.ret = "False"
                 ELSE /\ blocks'[k].validators = grown
                      /\ (last'.ret = "True") <=> (Len(grown) >= min_validators)
                      /\ blocks'[k].status =
                           IF Len(grown) >= min_validators
                           THEN "validated" ELSE blocks[k].status]_vars

\* the quorum was reached by a registered and a never registered validator
C11_Witness ==
    /\ last.op = "validate_block"
    /\ last.ret = "True"
    /\ \E k \in 1..Len(blocks) :
          /\ blocks[k].hash = last.hash
          /\ blocks[k].status = "validated"
          /\ Range(blocks[k].validators) \cap Range(validators) # {}
          /\ Range(blocks[k].validators) \ Range(validators) # {}

\* the j-th smallest member of a set of indexes
NthIndex(S, j) == CHOOSE i \in S : Cardinality({x \in S : x < i}) = j - 1

\* the changes of the blocks of bs that have status st, in ledger order
ChangesWithStatus(bs, st) ==
    LET S == {k \in 1..Len(bs) : bs[k].status = st}
    IN [j \in 1..Cardinality(S) |-> bs[NthIndex(S, j)].changes]

\* C12: get_validated_changes returns the changes of exactly the validated
\* blocks and get_pending_changes those of exactly the pending blocks, each
\* in ledger order, in every state, and a call of either changes nothing.
C12_ChangesByStatus ==
    [][/\ get_validated_changes(blocks') = ChangesWithStatus(blocks', "validated")
       /\ get_pending_changes(blocks') = ChangesWithStatus(blocks', "pending")
       /\ (last'.op = "get_validated_changes") =>
             /\ out' = ChangesWithStatus(blocks, "validated")
             /\ UNCHANGED <<cvars, evars>>
       /\ (last'.op = "get_pending_changes") =>
             /\ out' = ChangesWithStatus(blocks, "pending")
             /\ UNCHANGED <<cvars, evars>>]_vars

\* two validated blocks with different changes were read, in ledger order
C12_Witness ==
    /\ last.op = "get_validated_changes"
    /\ Len(blocks) >= 2
    /\ blocks[1].changes # blocks[2].changes
    /\ out = <<blocks[1].changes, blocks[2].changes>>

\* the fields of a block that are set at creation
CreatedFields(b) == <<b.timestamp, b.node_id, b.changes, b.previous_hash, b.hash>>

\* C13: ledger immutability. No call removes or reorders blocks or changes
\* the timestamp, node_id, changes, previous_hash or hash of a block;
\* validate_block and reject_block touch only the block they address; and
\* every stored hash is the digest of the block's own timestamp, node_id,
\* changes and previous_hash.
C13_LedgerImmutable ==
    [][/\ Len(blocks') >= Len(blocks)
       /\ \A k \in 1..Len(blocks) : CreatedFields(blocks'[k]) = CreatedFields(blocks[k])
       /\ (IsValidate \/ IsReject) =>
             /\ Len(blocks') = Len(blocks)
             /\ \A k \in 1..Len(blocks) :
                   blocks[k].hash # last'.hash => blocks'[k] = blocks[k]
       /\ \A k \in 1..Len(blocks') :
             blocks'[k].hash =
                sha256(BlockData(blocks'[k].timestamp, blocks'[k].node_id,
                                 blocks'[k].changes, blocks'[k].previous_hash))]_vars

\* of two blocks the first was validated and then rejected, the second,
\* with the other changes, is as it was created
C13_Witness ==
    /\ Len(blocks) >= 2
    /\ last = Call("reject_block", blocks[1].hash, "-", "validated", "None")
    /\ blocks[1].validators # <<>>
    /\ blocks[2].changes # blocks[1].changes
    /\ blocks[2].validators = <<>>
    /\ blocks[2].status = "pending"

\* the step is a call of propose_rule
IsPropose == last'.op = "propose_rule"

\* the gate as the claims state it: the three required keys, a justification
\* of more than 100 characters and more than 20 words (a justification of w
\* words of l letters and p closing blanks has w * (l + 1) - 1 + p
\* characters), and no reputation record or a score of at least 0.5
GatePasses(p, reputation) ==
    /\ {"threshold", "timeout", "min_validators"} \subseteq DOMAIN p.parameters
    /\ p.justification.words * (p.justification.letters + 1) - 1
          + p.justification.pad > 100
    /\ p.justification.words > 20
    /\ \/ p.node_id \notin DOMAIN reputation
       \/ 2 * reputation[p.node_id] >= ScoreScale

\* C14: a propose_rule call whose proposal fails the gate returns False and
\* leaves the pool, the reputation map, the active rule and the rule history
\* as they were.
C14_FailedGateNoEffect ==
    [][(IsPropose /\ ~GatePasses(last'.proposal, node_reputation)) =>
          /\ last'.ret = "False"
          /\ UNCHANGED <<proposals, node_reputation, current_rule, rule_history>>]_vars

\* a proposer whose recorded score is below 0.5 was turned away while the
\* pool held proposals
C14_Witness ==
    /\ last.op = "propose_rule"
    /\ last.ret = "False"
    /\ last.error = "-"
    /\ last.proposal.node_id \in DOMAIN node_reputation
    /\ 2 * node_reputation[last.proposal.node_id] < ScoreScale
    /\ {"threshold", "timeout", "min_validators"} \subseteq DOMAIN last.proposal.parameters
    /\ Len(proposals) >= 2

\* C15 as stated: propose_rule returns True exactly when the proposal passes
\* the gate, and False otherwise.
C15_TrueIffGate ==
    [][IsPropose =>
          ((last'.ret = "True") <=> GatePasses(last'.proposal, node_reputation))]_vars

\* C15 as amended: propose_rule returns True exactly when the proposal passes
\* the gate and no error is caught in the evolution check that follows;
\* it returns False when the gate fails or an error was caught, and an error
\* is caught only after the gate was passed.
C15_TrueIffGateAndNoError ==
    [][IsPropose =>
          /\ last'.ret \in {"True", "False"}
          /\ (last'.ret = "True") <=>
                (GatePasses(last'.proposal, node_reputation) /\ last'.error = "-")
          /\ (last'.error # "-") => GatePasses(last'.proposal, node_reputation)]_vars

\* a proposal that passes the gate was answered False because combining the
\* selected parameters raised KeyError
C15_Witness ==
    /\ last.op = "propose_rule"
    /\ last.ret = "False"
    /\ last.error = "KeyError"
    /\ {"threshold", "timeout", "min_validators"} \subseteq DOMAIN last.proposal.parameters
    /\ last.proposal.justification.words > 20
    /\ Len(proposals) >= 5

\* C16: a proposal that passes the gate sets the proposer's reputation to
\* 0.7 * prior + 0.3 * fitness_score, prior being the recorded score or 0.5,
\* and changes the record of no other node.
C16_ReputationUpdate ==
    [][(IsPropose /\ GatePasses(last'.proposal, node_reputation)) =>
          LET n == last'.proposal.node_id
              prior == IF n \in DOMAIN node_reputation
                       THEN node_reputation[n] ELSE ScoreScale \div 2
              fitness == last'.proposal.fitness_score * (ScoreScale \div 10)
          IN /\ DOMAIN node_reputation' = DOMAIN node_reputation \cup {n}
             /\ 10 * node_reputation'[n] = 7 * prior + 3 * fitness
             /\ \A m \in DOMAIN node_reputation :
                   m # n => node_reputation'[m] = node_reputation[m]]_vars

\* a node without a record proposed with fitness 1.0 and stands at 0.65,
\* beside another node's record
C16_Witness ==
    /\ last.op = "propose_rule"
    /\ last.proposal.fitness_score = 10
    /\ last.proposal.node_id \in DOMAIN node_reputation
    /\ node_reputation[last.proposal.node_id] = 65 * (ScoreScale \div 100)
    /\ DOMAIN node_reputation # {last.proposal.node_id}

\* the fraction f is the arithmetic mean of the values
IsMeanOf(f, values) == f.sum * Len(values) = SumOf(values) * f.count

\* C17: a passing propose_rule call that leaves fewer than 5 proposals in
\* the pool installs nothing; one that brings the pool to 5 appends one rule
\* to the history, built from 3 pooled proposals of highest fitness_score
\* with, for each key of the first of them, the mean of that key over the
\* three, and leaves the pool empty.
C17_EvolutionTrigger ==
    [][(IsPropose /\ GatePasses(last'.proposal, node_reputation)) =>
          LET pool == Append(proposals, last'.proposal) IN
            /\ Len(pool) < 5 =>
                  /\ proposals' = pool
                  /\ UNCHANGED <<current_rule, rule_history>>
            /\ Len(pool) = 5 =>
                  /\ proposals' = <<>>
                  /\ Len(rule_history') = Len(rule_history) + 1
                  /\ \E a, b, c \in 1..Len(pool) :
                        /\ a # b /\ b # c /\ a # c
                        /\ \A k \in 1..Len(pool) \ {a, b, c} :
                              /\ pool[k].fitness_score <= pool[a].fitness_score
                              /\ pool[k].fitness_score <= pool[b].fitness_score
                              /\ pool[k].fitness_score <= pool[c].fitness_score
                        /\ pool[a].fitness_score >= pool[b].fitness_score
                        /\ pool[b].fitness_score >= pool[c].fitness_score
                        /\ LET rule == rule_history'[Len(rule_history')] IN
                             /\ DOMAIN rule.parameters = DOMAIN pool[a].parameters
                             /\ \A key \in DOMAIN rule.parameters :
                                   /\ key \in DOMAIN pool[b].parameters
                                   /\ key \in DOMAIN pool[c].parameters
                                   /\ IsMeanOf(rule.parameters[key],
                                               <<pool[a].parameters[key],
                                                 pool[b].parameters[key],
                                                 pool[c].parameters[key]>>)]_vars

\* C18: whenever propose_rule returns False, the pool, the reputation map,
\* the active rule and the rule history are as they were before the call.
C18_AllOrNothing ==
    [][(IsPropose /\ last'.ret = "False") =>
          UNCHANGED <<proposals, node_reputation, current_rule, rule_history>>]_vars

\* C19: get_current_rule reports rule type evolutionary and the parameters
\* of the rule installed last, and reports no parameters exactly when the
\* rule history is empty (no evolution has occurred); the selected
\* proposals' own rule types do not show.
C19_CurrentRule ==
    LET rule == get_current_rule IN
      /\ rule.rule_type = "evolutionary"
      /\ (DOMAIN rule.parameters = {}) <=> (rule_history = <<>>)
      /\ rule_history # <<>> =>
            rule.parameters = rule_history[Len(rule_history)].parameters
      /\ last.op = "get_current_rule" => out = rule

\* after two evolutions with different outcomes, built from proposals of
\* other rule types, the current rule was read
C19_Witness ==
    /\ last.op = "get_current_rule"
    /\ Len(rule_history) = 2
    /\ rule_history[1].parameters # rule_history[2].parameters
    /\ out.parameters = rule_history[2].parameters
    /\ out.rule_type = "evolutionary"

\* C20: the rule history is append-only. A step leaves it as it is or
\* appends one entry; an entry is appended only by a propose_rule call that
\* brings the pool to 5 or more, and holds the parameters then reported as
\* current and the node ids of 3 pooled proposals of highest fitness; a
\* call that appends nothing leaves the active rule unchanged; and
\* get_evolution_history returns the entries in the order they were appended.
C20_HistoryAppendOnly ==
    [][/\ Len(rule_history') \in {Len(rule_history), Len(rule_history) + 1}
       /\ \A k \in 1..Len(rule_history) : rule_history'[k] = rule_history[k]
       /\ Len(rule_history') = Len(rule_history) =>
             /\ current_rule' = current_rule
             /\ get_current_rule' = get_current_rule
       /\ Len(rule_history') = Len(rule_history) + 1 =>
             /\ IsPropose
             /\ Len(proposals) + 1 >= 5
             /\ LET entry == rule_history'[Len(rule_history')]
                    pool == Append(proposals, last'.proposal)
                IN /\ entry.parameters = get_current_rule'.parameters
                   /\ Len(entry.proposals_used) = 3
                   /\ \E a, b, c \in 1..Len(pool) :
                         /\ a # b /\ b # c /\ a # c
                         /\ entry.proposals_used =
                               <<pool[a].node_id, pool[b].node_id, pool[c].node_id>>
                         /\ \A k \in 1..Len(pool) \ {a, b, c} :
                               /\ pool[k].fitness_score <= pool[a].fitness_score
                               /\ pool[k].fitness_score <= pool[b].fitness_score
                               /\ pool[k].fitness_score <= pool[c].fitness_score
       /\ (IsPropose /\ Len(proposals) + 1 < 5) => rule_history' = rule_history
       /\ (last'.op = "get_evolution_history") =>
             (out' = rule_history /\ UNCHANGED evars)]_vars

\* the history of two evolutions with different entries was read
C20_Witness ==
    /\ last.op = "get_evolution_history"
    /\ Len(rule_history) = 2
    /\ rule_history[1] # rule_history[2]
    /\ rule_history[1].proposals_used # rule_history[2].proposals_used
    /\ out = rule_history

\* the blocks with status st have a number of distinct validators that
\* satisfies quorum
StatusMatchesCount(bs) ==
    \A k \in 1..Len(bs) :
        /\ bs[k].status = "pending" =>
              Cardinality(Range(bs[k].validators)) < min_validators
        /\ bs[k].status = "validated" =>
              Cardinality(Range(bs[k].validators)) >= min_validators

\* C25: status and validator count stay consistent. In every state a
\* pending block has fewer than min_validators distinct validators and a
\* validated block has at least min_validators, and each block enters the
\* validated status at most once.  (A list only grows in validate_block,
\* which writes validated whenever the list reaches min_validators, so a
\* block whose list holds min_validators ids has been validated before:
\* entering validated with such a list is entering it again.)
C25_StatusCountConsistent ==
    [][/\ StatusMatchesCount(blocks')
       /\ \A k \in 1..Len(blocks) :
             (blocks[k].status # "validated" /\ blocks'[k].status = "validated")
             => Cardinality(Range(blocks[k].validators)) < min_validators]_vars

\* C26: reputation bound. Every fitness_score submitted lies in [0, 1], and
\* after any sequence of propose_rule calls every recorded reputation score
\* lies in [0, 1].
C26_ReputationBound ==
    /\ \A k \in 1..Len(proposals) : proposals[k].fitness_score \in 0..10
    /\ \A n \in DOMAIN node_reputation :
          node_reputation[n] >= 0 /\ node_reputation[n] <= ScoreScale

\* one node stands above 0.85 after four proposals of fitness 1.0, another
\* below 0.5 after a proposal of low fitness
C26_Witness ==
    /\ \E n \in DOMAIN node_reputation :
          /\ node_reputation[n] > 85 * (ScoreScale \div 100)
          /\ node_reputation[n] < ScoreScale
    /\ \E m \in DOMAIN node_reputation : 2 * node_reputation[m] < ScoreScale

\* C27: reputation lockout is permanent. While a node's recorded reputation
\* is below 0.5, no step changes it and every propose_rule call by that node
\* returns False (so the score stays below 0.5 from then on); a node's
\* record is changed only by its own proposals.
C27_LockoutPermanent ==
    [][\A n \in DOMAIN node_reputation :
         /\ 2 * node_reputation[n] < ScoreScale =>
               /\ n \in DOMAIN node_reputation'
               /\ node_reputation'[n] = node_reputation[n]
               /\ (IsPropose /\ last'.proposal.node_id = n) =>
                     (last'.ret = "False" /\ proposals' = proposals)
         /\ ~(IsPropose /\ last'.proposal.node_id = n) =>
               (n \in DOMAIN node_reputation'
                  /\ node_reputation'[n] = node_reputation[n])]_vars

\* n3 fell to 0.41 with its first proposal, which is still pooled; other
\* nodes were accepted since, and n3's next proposal, sound in parameters
\* and justification, was turned away
C27_Witness ==
    /\ last.op = "propose_rule"
    /\ last.proposal.node_id = "n3"
    /\ last.ret = "False"
    /\ "n3" \in DOMAIN node_reputation
    /\ node_reputation["n3"] = 41 * (ScoreScale \div 100)
    /\ last.proposal.justification.words > 20
    /\ Len(proposals) >= 3
    /\ proposals[1].node_id = "n3"
    /\ proposals[Len(proposals)].node_id # "n3"

\* C28: pool accounting. After every propose_rule call the pool holds at
\* most 4 proposals, and the number of proposals ever appended equals
\* 5 * len(rule_history) + len(pool): a call that appends (one that passes
\* the gate) raises that sum by one and no other call changes it, so an
\* evolution occurs on exactly every fifth accepted proposal.
C28_PoolAccounting ==
    [][IsPropose =>
          /\ Len(proposals') <= 4
          /\ 5 * Len(rule_history') + Len(proposals')
                = 5 * Len(rule_history) + Len(proposals)
                    + (IF GatePasses(last'.proposal, node_reputation) THEN 1 ELSE 0)
          /\ Len(rule_history') # Len(rule_history) => Len(proposals) = 4]_vars

\* pool position a comes before position b in the order (fitness_score
\* descending, submission order ascending)
SelectedBefore(pool, a, b) ==
    \/ pool[a].fitness_score > pool[b].fitness_score
    \/ pool[a].fitness_score = pool[b].fitness_score /\ a < b

\* C29: selection tie-break. When an evolution installs a rule, the node
\* ids in proposals_used are those of the first 3 pooled proposals in the
\* order (fitness_score descending, submission order ascending), in that
\* order: among equal fitness the earlier appended one is selected first;
\* reputation plays no part, and a node may contribute more than one.
C29_TieBreak ==
    [][Len(rule_history') = Len(rule_history) + 1 =>
          LET pool == Append(proposals, last'.proposal)
              entry == rule_history'[Len(rule_history')]
          IN \E a, b, c \in 1..Len(pool) :
                /\ SelectedBefore(pool, a, b)
                /\ SelectedBefore(pool, b, c)
                /\ \A k \in 1..Len(pool) \ {a, b, c} : SelectedBefore(pool, c, k)
                /\ entry.proposals_used =
                      <<pool[a].node_id, pool[b].node_id, pool[c].node_id>>]_vars

\* thresholds 6, 6 and 9 were combined from n2, n1 and n2 in that order: n2
\* and n1 tied at fitness 1.0 and n2 had submitted first, and n2 gave two
\* of the three
C29_Witness ==
    /\ Len(rule_history) = 1
    /\ rule_history[1].proposals_used = <<"n2", "n1", "n2">>
    /\ rule_history[1].parameters.threshold = [sum |-> 21, count |-> 3]
    /\ "n3" \in DOMAIN node_reputation

\* C21: a producer node never creates a block for an update whose largest
\* weight delta exceeds 1.0 or whose reported learning rate exceeds 0.1
\* (the sanity check comes before create_block): no ledger of a node ever
\* holds such a block.
C21_ProducerSanityCheck ==
    \A n \in GemmaIds :
        \A k \in 1..Len(nodes[n].consensus.blocks) :
            LET updates == ModelUpdates(nodes[n].consensus.blocks[k].changes)
            IN updates.max_update <= 100 /\ updates.learning_rate <= 10

AllReturned == \A t \in Threads : threads[t].pc = "idle"

\* C22: under any interleaving of concurrent create_block calls of several
\* producers on one Consensus, every block's previous_hash is the hash of
\* the block just before it in the ledger (the zero string for the first),
\* and no two blocks have the same predecessor: the chain never forks.
C22_NoFork ==
    /\ \A k \in 1..Len(blocks) :
          blocks[k].previous_hash = (IF k = 1 THEN ZeroHash ELSE blocks[k - 1].hash)
    /\ \A j, k \in 1..Len(blocks) :
          j # k => blocks[j].previous_hash # blocks[k].previous_hash

\* C23: under any interleaving of concurrent validate_block calls on one
\* block, no validator id is in its list twice, a validated block has at
\* least min_validators distinct validators, and when the calls have
\* returned a block with min_validators distinct validators is validated.
C23_AtomicValidation ==
    \A k \in 1..Len(blocks) :
        /\ \A a, b \in 1..Len(blocks[k].validators) :
              a # b => blocks[k].validators[a] # blocks[k].validators[b]
        /\ blocks[k].status = "validated" =>
              Cardinality(Range(blocks[k].validators)) >= min_validators
        /\ (AllReturned /\ Cardinality(Range(blocks[k].validators)) >= min_validators)
              => blocks[k].status = "validated"

\* C24: under any interleaving of concurrent propose_rule calls, at most
\* one evolution occurs per crossing of the 5-proposal threshold: a step
\* that extends the rule history appends one entry and clears a pool of at
\* least 5 proposals; and no accepted proposal is lost other than by that
\* clear: any other step leaves the pool as it is or appends one proposal.
C24_OneEvolutionPerCrossing ==
    [][IF Len(rule_history') # Len(rule_history)
       THEN /\ Len(rule_history') = Len(rule_history) + 1
            /\ Len(proposals) >= 5
            /\ proposals' = <<>>
       ELSE \/ proposals' = proposals
            \/ /\ Len(proposals') = Len(proposals) + 1
               /\ SubSeq(proposals', 1, Len(proposals)) = proposals]_vars
====
